---- MODULE Spec2Model ----
(***************************************************************************)
(* State-machine model of main.js of pdf-splitter: the bootstrap           *)
(* loadPyodideAndScript, the drop / click / change listeners, the async     *)
(* function handleFile and the zipButton click listener.  Every action is   *)
(* one run-to-completion segment of the JavaScript event loop: the code     *)
(* between two awaits of one async function, or one whole event listener.   *)
(*                                                                         *)
(* Strings the code takes apart (file names, MIME types) are sequences of   *)
(* one-character strings; strings it only copies are TLA+ strings or        *)
(* sequences of lines.  A byte or text content is a record [src, body]:     *)
(* body is the content, src the index of the submitted file it was derived  *)
(* from by the Python side.                                                 *)
(***************************************************************************)
EXTENDS Integers, Sequences, FiniteSets, TLC

\* ------------------------------------------------------------------ bounds

\* handleFile runs that pass the guards, over the life of the page
MaxRuns == 2
\* clicks of the ZIP button that start an archive, over the life of the page
MaxZips == 2

\* ----------------------------------------------------------------- strings

Lower(c) ==
    CASE c = "A" -> "a" [] c = "B" -> "b" [] c = "C" -> "c" [] c = "D" -> "d"
      [] c = "F" -> "f" [] c = "P" -> "p" [] c = "S" -> "s" [] OTHER -> c

toLowerCase(s) == [i \in 1..Len(s) |-> Lower(s[i])]

endsWith(s, suf) ==
    /\ Len(s) >= Len(suf)
    /\ SubSeq(s, Len(s) - Len(suf) + 1, Len(s)) = suf

startsWith(s, pre) ==
    /\ Len(s) >= Len(pre)
    /\ SubSeq(s, 1, Len(pre)) = pre

includes(s, sub) ==
    \E i \in 1..(Len(s) - Len(sub) + 1) : SubSeq(s, i, i + Len(sub) - 1) = sub

DotPdf == <<".", "p", "d", "f">>
SelectedPrefix == <<"S", "e", "l", "e", "c", "t", "e", "d", ":", " ">>
ChaptersZip == <<"_", "c", "h", "a", "p", "t", "e", "r", "s", ".", "z", "i", "p">>
SplitOutput == <<"s", "p", "l", "i", "t", "_", "o", "u", "t", "p", "u", "t">>

\* s.replace(/\.pdf$/i, '')
replacePdfExt(s) ==
    IF endsWith(toLowerCase(s), DotPdf) THEN SubSeq(s, 1, Len(s) - 4) ELSE s

\* s.replace(/^Selected: /, '')
replaceSelected(s) ==
    IF startsWith(s, SelectedPrefix)
    THEN SubSeq(s, Len(SelectedPrefix) + 1, Len(s))
    ELSE s

\* s.substring(3)
substring3(s) == SubSeq(s, 4, Len(s))

\* ------------------------------------------------- the files a user submits

Files ==
    << [name |-> <<"a", ".", "p", "d", "f">>,
        type |-> <<"a", "p", "p", "l", "i", "c", "a", "t", "i", "o", "n", "/", "p", "d", "f">>],
       [name |-> <<"B", ".", "P", "D", "F">>,
        type |-> <<"a", "p", "p", "l", "i", "c", "a", "t", "i", "o", "n", "/", "p", "d", "f">>],
       [name |-> <<"n", ".", "t", "x", "t">>,
        type |-> <<"t", "e", "x", "t", "/", "p", "l", "a", "i", "n">>] >>

FileIds == 1..Len(Files)

\* file.type && file.type.includes('pdf')
isPdfType(f) == Files[f].type # <<>> /\ includes(Files[f].type, <<"p", "d", "f">>)

\* --------------------------------------- what split_pdf_data may hand back

\* '001_A.pdf', '002_B.pdf', '003_C.pdf': the chapter file names of one result,
\* made unique by the zero-padded sequence prefix
ChapterNameA == <<"0", "0", "1", "_", "A", ".", "p", "d", "f">>
ChapterNameB == <<"0", "0", "2", "_", "B", ".", "p", "d", "f">>
ChapterNameC == <<"0", "0", "3", "_", "C", ".", "p", "d", "f">>
ChaptersTxt == <<"c", "h", "a", "p", "t", "e", "r", "s", ".", "t", "x", "t">>
ChaptersJson == <<"c", "h", "a", "p", "t", "e", "r", "s", ".", "j", "s", "o", "n">>

\* The kinds of value a chapter's second element may be on the JavaScript side.
\*   PyProxyBytes  a PyProxy whose toJs() is a Uint8Array
\*   PyProxyList   a PyProxy whose toJs() is an array of numbers
\*   PyProxyBad    a PyProxy whose toJs() makes new Uint8Array(..) throw
\*   Uint8Array, ArrayBuffer, String (an unsupported type)
\* and the entry itself may be null, so that chapter[0] throws a TypeError.
Chapter(f, nm, kind, n) == [name |-> nm, kind |-> kind, data |-> [src |-> f, body |-> <<n>>]]
NullChapter(f) == [name |-> <<>>, kind |-> "null", data |-> [src |-> f, body |-> <<>>]]

Text(f, lines) == [src |-> f, body |-> lines]

\* The results of split_pdf_data for submitted file f, as handleFile reads them
\* after toJs: status, message (its lines), console_log, toc_text, toc_json,
\* chapters and warnings.
ResultsOf(f) ==
    << [status |-> "success", message |-> <<"Split into 2 chapters">>, console_log |-> "toc log",
        toc_text |-> Text(f, <<"A: pages 1-3", "B: pages 4-10">>),
        toc_json |-> Text(f, <<"[", "A", "B", "]">>),
        chapters |-> << Chapter(f, ChapterNameA, "PyProxyBytes", 1),
                        Chapter(f, ChapterNameB, "Uint8Array", 2) >>,
        warnings |-> <<>>],
       [status |-> "success", message |-> <<"Split into 3 chapters">>, console_log |-> "",
        toc_text |-> Text(f, <<"A: pages 1-3", "B: pages 4-7", "C: pages 8-10">>),
        toc_json |-> Text(f, <<"[", "A", "B", "C", "]">>),
        chapters |-> << Chapter(f, ChapterNameA, "ArrayBuffer", 1),
                        Chapter(f, ChapterNameB, "String", 2),
                        Chapter(f, ChapterNameC, "PyProxyList", 3) >>,
        warnings |-> <<"Warning: leading pages dropped">>],
       [status |-> "success", message |-> <<"No chapters", "Warning: outline is empty">>,
        console_log |-> "",
        toc_text |-> Text(f, <<>>), toc_json |-> Text(f, <<>>),
        chapters |-> <<>>,
        warnings |-> <<"Warning: outline is empty">>],
       [status |-> "success", message |-> <<"Split into 0 chapters">>, console_log |-> "",
        toc_text |-> Text(f, <<>>), toc_json |-> Text(f, <<"[", "]">>),
        chapters |-> <<>>,
        warnings |-> <<>>],
       [status |-> "success", message |-> <<"Split into 3 chapters">>, console_log |-> "",
        toc_text |-> Text(f, <<"A: pages 1-3", "B: pages 4-7", "C: pages 8-10">>),
        toc_json |-> Text(f, <<"[", "A", "B", "C", "]">>),
        chapters |-> << Chapter(f, ChapterNameA, "PyProxyBad", 1),
                        NullChapter(f),
                        Chapter(f, ChapterNameC, "Uint8Array", 3) >>,
        warnings |-> <<>>],
       [status |-> "partial", message |-> <<"Extracted 1 of 2 chapters">>, console_log |-> "toc log",
        toc_text |-> Text(f, <<"A: pages 1-3", "B: pages 4-10">>),
        toc_json |-> Text(f, <<"[", "A", "B", "]">>),
        chapters |-> << Chapter(f, ChapterNameA, "PyProxyBytes", 1) >>,
        warnings |-> <<"chapter 2 failed">>],
       [status |-> "failure", message |-> <<"No outline found">>, console_log |-> "",
        toc_text |-> Text(f, <<>>), toc_json |-> Text(f, <<>>),
        chapters |-> <<>>,
        warnings |-> <<>>] >>

ResultIds == 1..7

\* line.includes('Warning:'), for the lines the results above are made of
includesWarning(line) ==
    line \in {"Warning: outline is empty", "Warning: leading pages dropped"}

\* The texts /pdf_splitter.py may be served as: an empty body, the script that
\* defines split_pdf_data, or a script that runs but does not define it.
ScriptTexts == {"", "defines split_pdf_data", "defines nothing"}

\* ------------------------------------------------------------------- state

VARIABLES
    boot,             \* where loadPyodideAndScript stands
    pyodide,          \* pyodide # null
    pythonScript,     \* the fetched script text
    isPyodideReady,
    generatedFiles,   \* sequence of [name, data, type]
    zipDisabled,      \* zipButton.disabled
    loaderShown,      \* loaderElement.style.display = 'inline-block'
    output,           \* outputElement.textContent, as a sequence of segments
    downloads,        \* the children of downloadsElement
    fileName,         \* fileNameElement.textContent
    pdfInput,         \* pdfInputElement.value: 0 for '', else the selected file
    runs,             \* the handleFile runs that passed the guards
    nRuns,            \* how many of them were started
    zips,             \* the ZIP click handlers waiting on zip.generateAsync
    nZips,            \* how many of them were started
    saved             \* the archive download triggered last: link.download and the blob

vars == <<boot, pyodide, pythonScript, isPyodideReady, generatedFiles, zipDisabled,
          loaderShown, output, downloads, fileName, pdfInput, runs, nRuns,
          zips, nZips, saved>>

bootVars == <<boot, pyodide, pythonScript, isPyodideReady>>
zipVars == <<zips, nZips, saved>>

RunIds == 1..MaxRuns

\* A run not yet started.  pc: "idle", then "reading" (await file.arrayBuffer()),
\* "calling" (await splitPdfData(..)), "done".  proxy: pdfBytesPy, "none", "live" or
\* "destroyed".  threw: the catch block ran.  alone: no other run was between its
\* start and its end at any moment of this run (history, not program state).
IdleRun == [pc |-> "idle", file |-> 0, res |-> 0, proxy |-> "none", threw |-> FALSE,
            alone |-> TRUE]

InProgress(r) == runs[r].pc \in {"reading", "calling"}
Seg(k, a) == [k |-> k, a |-> a]

NoDownload == [download |-> <<>>, entries |-> <<>>]

Init ==
    /\ boot = "loadPyodide"
    /\ pyodide = FALSE
    /\ pythonScript = ""
    /\ isPyodideReady = FALSE
    /\ generatedFiles = <<>>
    /\ zipDisabled = TRUE
    /\ loaderShown = FALSE
    /\ output = <<Seg("Loading Pyodide", <<>>)>>
    /\ downloads = <<>>
    /\ fileName = <<>>
    /\ pdfInput = 0
    /\ runs = [r \in RunIds |-> IdleRun]
    /\ nRuns = 0
    /\ zips = <<>>
    /\ nZips = 0
    /\ saved = NoDownload

\* -------------------------------------------------- loadPyodideAndScript

uiVars == <<generatedFiles, zipDisabled, loaderShown, downloads, fileName, pdfInput,
            runs, nRuns, zips, nZips, saved>>

\* pyodide = await loadPyodide()
LoadPyodideDone ==
    /\ boot = "loadPyodide"
    /\ pyodide' = TRUE
    /\ output' = <<Seg("Pyodide loaded. Loading micropip package", <<>>)>>
    /\ boot' = "loadPackage"
    /\ UNCHANGED <<pythonScript, isPyodideReady>>
    /\ UNCHANGED uiVars

\* await pyodide.loadPackage(['micropip']); pyimport
LoadPackageDone ==
    /\ boot = "loadPackage"
    /\ output' = <<Seg("Installing pypdf", <<>>)>>
    /\ boot' = "install"
    /\ UNCHANGED <<pyodide, pythonScript, isPyodideReady>>
    /\ UNCHANGED uiVars

\* await micropip.install('pypdf')
InstallDone ==
    /\ boot = "install"
    /\ output' = <<Seg("pypdf installed. Fetching Python splitter script", <<>>)>>
    /\ boot' = "fetch"
    /\ UNCHANGED <<pyodide, pythonScript, isPyodideReady>>
    /\ UNCHANGED uiVars

\* the catch block of loadPyodideAndScript
BootCatch ==
    /\ output' = <<Seg("Error loading Pyodide or dependencies", <<>>)>>
    /\ boot' = "failed"

\* response = await fetch('/pdf_splitter.py'); if (!response.ok) throw
FetchDone ==
    /\ boot = "fetch"
    /\ \E ok \in BOOLEAN :
         IF ok
         THEN /\ boot' = "text"
              /\ UNCHANGED output
         ELSE BootCatch
    /\ UNCHANGED <<pyodide, pythonScript, isPyodideReady>>
    /\ UNCHANGED uiVars

\* pythonScript = await response.text(); pyodide.runPython(pythonScript);
\* isPyodideReady = true.  runPython may throw on a body that is not Python.
TextDone ==
    /\ boot = "text"
    /\ \E text \in ScriptTexts, runs_ok \in BOOLEAN :
         /\ pythonScript' = text
         /\ IF runs_ok
            THEN /\ output' = <<Seg("Ready. Drop or select a PDF file.", <<>>)>>
                 /\ isPyodideReady' = TRUE
                 /\ boot' = "done"
            ELSE /\ BootCatch
                 /\ UNCHANGED isPyodideReady
    /\ UNCHANGED pyodide
    /\ UNCHANGED uiVars

\* any awaited step before the fetch rejects, or pyimport throws
BootFail ==
    /\ boot \in {"loadPyodide", "loadPackage", "install", "fetch", "text"}
    /\ BootCatch
    /\ UNCHANGED <<pyodide, pythonScript, isPyodideReady>>
    /\ UNCHANGED uiVars

\* pyodide.globals.has('split_pdf_data')
globalsHasSplit == pythonScript = "defines split_pdf_data"


\* ------------------------------------------------------------- handleFile

Link(name, data, type) == [k |-> "link", name |-> name, data |-> data, type |-> type]
Para(text, a) == [k |-> "text", text |-> text, a |-> a]
Count(text, n) == [k |-> "text", text |-> text, a |-> <<>>, n |-> n]
File(name, data, type) == [name |-> name, data |-> data, type |-> type]

\* createDownloadLink(data, filename, mimeType, containerElement)
createDownloadLink(data, filename, mimeType, container) ==
    Append(container, Link(filename, data, mimeType))

\* the readiness guard without its flag: !(!pyodide || !pythonScript)
EnvironmentReadyNoFlag == pyodide /\ pythonScript # ""

\* !(!isPyodideReady || !pyodide || !pythonScript)
EnvironmentReady == isPyodideReady /\ pyodide /\ pythonScript # ""

\* handleFile with the state reset done before the two guards instead of after them
handleFileResetsFirst(f, inputValue) ==
    /\ zipDisabled' = TRUE
    /\ loaderShown' = TRUE
    /\ downloads' = <<Para("(Processing...)", <<>>)>>
    /\ generatedFiles' = <<>>
    /\ IF ~isPdfType(f)
       THEN /\ output' = <<Seg("Error: Selected file is not a PDF", Files[f].name)>>
            /\ fileName' = <<>>
            /\ pdfInput' = 0
            /\ UNCHANGED <<runs, nRuns>>
       ELSE IF ~EnvironmentReady
       THEN /\ output' = <<Seg("Environment not ready", <<>>)>>
            /\ pdfInput' = inputValue
            /\ UNCHANGED <<fileName, runs, nRuns>>
       ELSE /\ nRuns < MaxRuns
            /\ fileName' = SelectedPrefix \o Files[f].name
            /\ output' = <<Seg("Reading file", Files[f].name)>>
            /\ pdfInput' = inputValue
            /\ nRuns' = nRuns + 1
            /\ runs' = [r \in RunIds |->
                   IF r = nRuns + 1
                   THEN [IdleRun EXCEPT !.pc = "reading", !.file = f,
                                        !.alone = \A q \in RunIds : ~InProgress(q)]
                   ELSE IF InProgress(r) THEN [runs[r] EXCEPT !.alone = FALSE]
                   ELSE runs[r]]

\* The part of handleFile(file) before its first await, for the file with index f.
\* inputValue is pdfInputElement.value when handleFile is called.
handleFile(f, inputValue) ==
    IF ~isPdfType(f)
    THEN /\ output' = <<Seg("Error: Selected file is not a PDF", Files[f].name)>>
         /\ fileName' = <<>>
         /\ pdfInput' = 0
         /\ UNCHANGED <<generatedFiles, zipDisabled, loaderShown, downloads, runs, nRuns>>
    ELSE IF ~EnvironmentReady
    THEN /\ output' = <<Seg("Environment not ready", <<>>)>>
         /\ pdfInput' = inputValue
         /\ UNCHANGED <<generatedFiles, zipDisabled, loaderShown, downloads, fileName,
                        runs, nRuns>>
    ELSE /\ nRuns < MaxRuns
         /\ zipDisabled' = TRUE
         /\ loaderShown' = TRUE
         /\ downloads' = <<Para("(Processing...)", <<>>)>>
         /\ generatedFiles' = <<>>
         /\ fileName' = SelectedPrefix \o Files[f].name
         /\ output' = <<Seg("Reading file", Files[f].name)>>
         /\ pdfInput' = inputValue
         /\ nRuns' = nRuns + 1
         /\ runs' = [r \in RunIds |->
                IF r = nRuns + 1
                THEN [IdleRun EXCEPT !.pc = "reading", !.file = f,
                                     !.alone = \A q \in RunIds : ~InProgress(q)]
                ELSE IF InProgress(r) THEN [runs[r] EXCEPT !.alone = FALSE]
                ELSE runs[r]]

\* dropZone 'drop' listener with a file in dataTransfer.files
handleDrop(f) ==
    /\ handleFile(f, pdfInput)
    /\ UNCHANGED bootVars
    /\ UNCHANGED zipVars

\* dropZone 'drop' listener with nothing in dataTransfer.files
handleDropEmpty ==
    /\ output' = <<Seg("No file detected in drop.", <<>>)>>
    /\ UNCHANGED bootVars
    /\ UNCHANGED uiVars

\* dropZone 'click' listener.  Once the environment is ready it only opens the
\* file dialog (pdfInputElement.click()), which changes nothing here.
dropZoneClick ==
    /\ IF ~isPyodideReady
       THEN output' = <<Seg("Please wait for the Python environment to load.", <<>>)>>
       ELSE UNCHANGED output
    /\ UNCHANGED bootVars
    /\ UNCHANGED uiVars

\* pdfInput 'change' listener: the user picked file f in a file dialog and the
\* input's value changed to it
pdfInputChange(f) ==
    /\ pdfInput # f
    /\ handleFile(f, f)
    /\ UNCHANGED bootVars
    /\ UNCHANGED zipVars

\* Run r at the end of handleFile: what its closure held is gone
Finished(r, threw, proxy) ==
    [runs EXCEPT ![r] = [IdleRun EXCEPT !.pc = "done", !.threw = threw, !.proxy = proxy]]

\* the catch block of handleFile with nothing after it
CatchOnly(r) ==
    /\ output' = <<Seg("JavaScript error during processing", <<>>)>>
    /\ downloads' = <<Para("(Processing failed - See Console)", <<>>)>>
    /\ zipDisabled' = TRUE
    /\ UNCHANGED <<loaderShown, pdfInput>>

\* the catch block of handleFile followed by its finally block
CatchFinally(r) ==
    /\ output' = <<Seg("JavaScript error during processing", <<>>)>>
    /\ downloads' = <<Para("(Processing failed - See Console)", <<>>)>>
    /\ zipDisabled' = TRUE
    /\ loaderShown' = FALSE
    /\ pdfInput' = 0

\* file.arrayBuffer() rejects
readFailed(r) ==
    /\ runs[r].pc = "reading"
    /\ CatchFinally(r)
    /\ runs' = Finished(r, TRUE, "none")
    /\ UNCHANGED <<generatedFiles, fileName, nRuns>>
    /\ UNCHANGED bootVars
    /\ UNCHANGED zipVars

\* file.arrayBuffer() resolves: handleFile up to await splitPdfData(pdfBytesPy, file.name).
\* The Python call returns result k of the file, or raises (k = 0).
readDone(r) ==
    /\ runs[r].pc = "reading"
    /\ IF ~globalsHasSplit
       THEN /\ CatchFinally(r)
            /\ runs' = Finished(r, TRUE, "none")
       ELSE \E k \in {0} \cup ResultIds :
              IF k = 0
              THEN /\ CatchFinally(r)
                   /\ runs' = Finished(r, TRUE, "live")
              ELSE /\ output' = <<Seg("File read. Running Python script", <<>>)>>
                   /\ runs' = [runs EXCEPT ![r].pc = "calling", ![r].res = k,
                                           ![r].proxy = "live"]
                   /\ UNCHANGED <<downloads, zipDisabled, loaderShown, pdfInput>>
    /\ UNCHANGED <<generatedFiles, fileName, nRuns>>
    /\ UNCHANGED bootVars
    /\ UNCHANGED zipVars

\* what the chapter loop makes of pdfData: TRUE when pdfBytes ends non-null
converts(kind) == kind \in {"PyProxyBytes", "PyProxyList", "Uint8Array", "ArrayBuffer"}

\* the chapter loop with a break where the code reports the chapter and goes on
RECURSIVE chapterLoopStops(_, _, _, _)
chapterLoopStops(chapters, i, gf, dl) ==
    IF i > Len(chapters)
    THEN [gf |-> gf, dl |-> dl, threw |-> FALSE]
    ELSE IF chapters[i].kind = "null"
    THEN [gf |-> gf, dl |-> dl, threw |-> TRUE]
    ELSE IF converts(chapters[i].kind)
    THEN chapterLoopStops(chapters, i + 1,
            Append(gf, File(chapters[i].name, chapters[i].data, "application/pdf")),
            createDownloadLink(chapters[i].data, chapters[i].name, "application/pdf", dl))
    ELSE [gf |-> gf,
          dl |-> Append(dl, Para("Error preparing download: Invalid data.", chapters[i].name)),
          threw |-> FALSE]

\* for (const chapter of results.chapters) { ... }, from chapter i on, with gf the
\* generatedFiles and dl the children of downloadsElement so far
RECURSIVE chapterLoop(_, _, _, _)
chapterLoop(chapters, i, gf, dl) ==
    IF i > Len(chapters)
    THEN [gf |-> gf, dl |-> dl, threw |-> FALSE]
    ELSE IF chapters[i].kind = "null"
    THEN [gf |-> gf, dl |-> dl, threw |-> TRUE]
    ELSE IF converts(chapters[i].kind)
    THEN chapterLoop(chapters, i + 1,
            Append(gf, File(chapters[i].name, chapters[i].data, "application/pdf")),
            createDownloadLink(chapters[i].data, chapters[i].name, "application/pdf", dl))
    ELSE chapterLoop(chapters, i + 1, gf,
            Append(dl, Para("Error preparing download: Invalid data.", chapters[i].name)))

\* the chapters.txt push without its if (results.toc_text)
pushTocTextAlways(res, st) ==
    [gf |-> Append(st.gf, File(ChaptersTxt, res.toc_text, "text/plain")),
     dl |-> createDownloadLink(res.toc_text, ChaptersTxt, "text/plain", st.dl)]

\* if (results.toc_text) { generatedFiles.push(..); createDownloadLink(..) }
pushTocText(res, st) ==
    IF res.toc_text.body # <<>>
    THEN [gf |-> Append(st.gf, File(ChaptersTxt, res.toc_text, "text/plain")),
          dl |-> createDownloadLink(res.toc_text, ChaptersTxt, "text/plain", st.dl)]
    ELSE st

\* if (results.toc_json) { generatedFiles.push(..); createDownloadLink(..) }
pushTocJson(res, st) ==
    IF res.toc_json.body # <<>>
    THEN [gf |-> Append(st.gf, File(ChaptersJson, res.toc_json, "application/json")),
          dl |-> createDownloadLink(res.toc_json, ChaptersJson, "application/json", st.dl)]
    ELSE st

\* the success branch up to the end of the chapter loop
successFiles(res, gf) ==
    LET toc == pushTocJson(res, pushTocText(res, [gf |-> gf, dl |-> <<>>]))
    IN  chapterLoop(res.chapters, 1, toc.gf, toc.dl)

\* results.message.split('\n').filter(line => line.includes('Warning:'))
warningLines(message) == SelectSeq(message, includesWarning)

\* outputElement.textContent after "Process Results"
finishedOutput(res) ==
    <<Seg("Python script finished", <<res.status>> \o res.message)>>
      \o (IF res.console_log # "" THEN <<Seg("Console Log", <<res.console_log>>)>> ELSE <<>>)

\* the status test taking every status but 'failure' for a success
isNotFailure(res) == res.status # "failure"

\* results.status === 'success'
isSuccess(res) == res.status = "success"

\* await splitPdfData(..) resumes: handleFile from the conversion of the result to
\* the end of its finally block
processResults(r) ==
    /\ runs[r].pc = "calling"
    /\ \E res \in {ResultsOf(runs[r].file)[runs[r].res]} :
       \E done \in {successFiles(res, generatedFiles)} :
           IF isSuccess(res)
           THEN /\ generatedFiles' = done.gf
                /\ IF done.threw
                   THEN /\ CatchFinally(r)
                        /\ runs' = Finished(r, TRUE, "live")
                   ELSE /\ output' = finishedOutput(res)
                        /\ IF Len(done.gf) > 0
                           THEN /\ zipDisabled' = FALSE
                                /\ downloads' = Append(done.dl,
                                       Count("file(s) generated", Len(done.gf)))
                           ELSE /\ UNCHANGED zipDisabled
                                /\ downloads' =
                                     <<Para("(No valid chapters/files were generated)", <<>>)>>
                                       \o (IF warningLines(res.message) # <<>>
                                           THEN <<Para("warnings", warningLines(res.message))>>
                                           ELSE <<>>)
                        /\ loaderShown' = FALSE
                        /\ pdfInput' = 0
                        /\ runs' = Finished(r, FALSE, "destroyed")
           ELSE /\ output' = finishedOutput(res)
                /\ downloads' = <<Para("(Processing failed)", res.message)>>
                /\ zipDisabled' = TRUE
                /\ loaderShown' = FALSE
                /\ pdfInput' = 0
                /\ runs' = Finished(r, FALSE, "destroyed")
                /\ UNCHANGED generatedFiles
    /\ UNCHANGED <<fileName, nRuns>>
    /\ UNCHANGED bootVars
    /\ UNCHANGED zipVars


\* ------------------------------------------------ zipButton click listener

\* generatedFiles.find(f => f.name.toLowerCase().endsWith('.pdf')): its index, 0 if none
findPdf(gf) ==
    IF \E i \in 1..Len(gf) : endsWith(toLowerCase(gf[i].name), DotPdf)
    THEN CHOOSE i \in 1..Len(gf) :
            /\ endsWith(toLowerCase(gf[i].name), DotPdf)
            /\ \A j \in 1..(i - 1) : ~endsWith(toLowerCase(gf[j].name), DotPdf)
    ELSE 0

\* a || b || 'split_output' of the click listener, '' being falsy
originalFileNameBase(gf, shownName) ==
    LET fromChapter == IF findPdf(gf) = 0 THEN <<>>
                       ELSE substring3(replacePdfExt(gf[findPdf(gf)].name))
        fromInput == replacePdfExt(replaceSelected(shownName))
    IN  IF fromChapter # <<>> THEN fromChapter
        ELSE IF fromInput # <<>> THEN fromInput
        ELSE SplitOutput

\* zip.file(name, data) on the entries so far: a second file of the same name
\* replaces the first
RECURSIVE zipFile(_, _, _)
zipFile(gf, i, entries) ==
    IF i > Len(gf) THEN entries
    ELSE IF \E j \in 1..Len(entries) : entries[j].name = gf[i].name
    THEN zipFile(gf, i + 1,
            [j \in 1..Len(entries) |->
                IF entries[j].name = gf[i].name
                THEN [name |-> gf[i].name, data |-> gf[i].data]
                ELSE entries[j]])
    ELSE zipFile(gf, i + 1, Append(entries, [name |-> gf[i].name, data |-> gf[i].data]))

\* A click on the enabled button: the listener up to await zip.generateAsync(..)
zipClick ==
    /\ ~zipDisabled
    /\ IF Len(generatedFiles) = 0
       THEN UNCHANGED <<zipDisabled, loaderShown, output, zips, nZips>>
       ELSE /\ nZips < MaxZips
            /\ zipDisabled' = TRUE
            /\ loaderShown' = TRUE
            /\ output' = Append(output, Seg("Creating ZIP file",
                            originalFileNameBase(generatedFiles, fileName) \o ChaptersZip))
            /\ zips' = Append(zips,
                   [base |-> originalFileNameBase(generatedFiles, fileName),
                    entries |-> zipFile(generatedFiles, 1, <<>>)])
            /\ nZips' = nZips + 1
    /\ UNCHANGED <<generatedFiles, downloads, fileName, pdfInput, runs, nRuns,
                   saved>>
    /\ UNCHANGED bootVars

Remove(seq, i) == SubSeq(seq, 1, i - 1) \o SubSeq(seq, i + 1, Len(seq))

\* zip.generateAsync resolves for the i-th waiting listener: the download is
\* triggered under link.download, then the finally block
zipDone(i) ==
    /\ i \in 1..Len(zips)
    /\ saved' = [download |-> zips[i].base \o ChaptersZip, entries |-> zips[i].entries]
    /\ output' = Append(output, Seg("ZIP created. Download started.", <<>>))
    /\ zipDisabled' = FALSE
    /\ loaderShown' = FALSE
    /\ zips' = Remove(zips, i)
    /\ UNCHANGED <<generatedFiles, downloads, fileName, pdfInput, runs, nRuns,
                   nZips>>
    /\ UNCHANGED bootVars

\* zip.generateAsync rejects for the i-th waiting listener: catch, then finally
zipFailed(i) ==
    /\ i \in 1..Len(zips)
    /\ output' = Append(output, Seg("Error creating ZIP file", <<>>))
    /\ zipDisabled' = FALSE
    /\ loaderShown' = FALSE
    /\ zips' = Remove(zips, i)
    /\ UNCHANGED <<generatedFiles, downloads, fileName, pdfInput, runs, nRuns,
                   nZips, saved>>
    /\ UNCHANGED bootVars

\* ------------------------------------------------------- the specification

Next ==
    \/ LoadPyodideDone
    \/ LoadPackageDone
    \/ InstallDone
    \/ FetchDone
    \/ TextDone
    \/ BootFail
    \/ \E f \in FileIds : handleDrop(f)
    \/ handleDropEmpty
    \/ dropZoneClick
    \/ \E f \in FileIds : pdfInputChange(f)
    \/ \E r \in RunIds : readDone(r)
    \/ \E r \in RunIds : readFailed(r)
    \/ \E r \in RunIds : processResults(r)
    \/ zipClick
    \/ \E i \in 1..MaxZips : zipDone(i)
    \/ \E i \in 1..MaxZips : zipFailed(i)

Spec == Init /\ [][Next]_vars

\* The event loop resumes every handleFile run whose awaited promise has settled:
\* file.arrayBuffer() resolves or rejects, and the call of split_pdf_data returns.
FairSpec ==
    /\ Spec
    /\ \A r \in RunIds : WF_vars(readDone(r) \/ readFailed(r))
    /\ \A r \in RunIds : WF_vars(processResults(r))

\* ---------------------------------------------------------------- claims

\* the handleFile runs between their state reset and their completion
Running == {r \in RunIds : InProgress(r)}

\* the download links shown, in order, as the files they offer
LinksOf(dl) ==
    LET isLink(x) == x.k = "link"
        links == SelectSeq(dl, isLink)
    IN  [i \in 1..Len(links) |-> File(links[i].name, links[i].data, links[i].type)]

\* the result run r is resuming with
ResultOf(r) == ResultsOf(runs[r].file)[runs[r].res]

\* run r takes the step from await splitPdfData(..) to the end of handleFile
Finishes(r) == runs[r].pc = "calling" /\ runs'[r].pc = "done"

\* C1: split requests are serialized: at most one handleFile run is between its
\* start and its completion at any time.
C1_Serialized == Cardinality(Running) <= 1

\* C2: when no run is in progress and the list can be handed to the ZIP step, the
\* files of generatedFiles all come from one submitted PDF, and the download
\* links shown are exactly the entries of generatedFiles.
C2_OneResult ==
    (Running = {} /\ ~zipDisabled) =>
        /\ \A i, j \in 1..Len(generatedFiles) :
              generatedFiles[i].data.src = generatedFiles[j].data.src
        /\ LinksOf(downloads) = generatedFiles

\* C3: split_pdf_data is called only in a run started after the bootstrap went
\* through every step; isPyodideReady never goes back to false; after a failed
\* bootstrap it stays false and no run is ever started.
C3_ReadyBeforeSplit ==
    /\ [](/\ isPyodideReady => (boot = "done" /\ pyodide)
          /\ \A r \in RunIds : runs[r].pc # "idle" => isPyodideReady
          /\ boot = "failed" => (~isPyodideReady /\ nRuns = 0))
    /\ [][/\ isPyodideReady => isPyodideReady'
          /\ boot = "failed" => boot' = "failed"]_vars

\* C3 witness: a run has called split_pdf_data and waits for its result
C3_Witness == \E r \in RunIds : runs[r].pc = "calling" /\ isPyodideReady

\* an entry of the list gf (of generatedFiles or of the links shown) equal to x
Has(gf, x) == \E i \in 1..Len(gf) : gf[i] = x

TocTextFile(res) == File(ChaptersTxt, res.toc_text, "text/plain")
TocJsonFile(res) == File(ChaptersJson, res.toc_json, "application/json")

\* C4, as claimed: a run that finishes with a 'success' result leaves in
\* generatedFiles an entry chapters.txt holding toc_text and an entry chapters.json
\* holding toc_json, each with its download link, whatever the TOC holds.
C4_BothTocFilesAlways ==
    [][\A r \in RunIds : (Finishes(r) /\ ResultOf(r).status = "success") =>
          /\ Has(generatedFiles', TocTextFile(ResultOf(r)))
          /\ Has(generatedFiles', TocJsonFile(ResultOf(r)))
          /\ Has(LinksOf(downloads'), TocTextFile(ResultOf(r)))
          /\ Has(LinksOf(downloads'), TocJsonFile(ResultOf(r)))]_vars

\* C4, amended: a run that finishes with a 'success' result leaves in
\* generatedFiles an entry chapters.txt holding toc_text exactly when toc_text is
\* not empty, and an entry chapters.json holding toc_json exactly when toc_json is
\* not empty; unless the run ended in its catch block, each such entry has its
\* download link, and there is no link for an empty one.
C4_TocFilesWhenNonEmpty ==
    [][\A r \in RunIds : (Finishes(r) /\ ResultOf(r).status = "success") =>
          /\ Has(generatedFiles', TocTextFile(ResultOf(r)))
                <=> ResultOf(r).toc_text.body # <<>>
          /\ Has(generatedFiles', TocJsonFile(ResultOf(r)))
                <=> ResultOf(r).toc_json.body # <<>>
          /\ ~runs'[r].threw =>
                /\ Has(LinksOf(downloads'), TocTextFile(ResultOf(r)))
                      <=> ResultOf(r).toc_text.body # <<>>
                /\ Has(LinksOf(downloads'), TocJsonFile(ResultOf(r)))
                      <=> ResultOf(r).toc_json.body # <<>>]_vars

\* C4 witness: a 'success' result with an empty toc_text and a toc_json of '[]' was
\* processed: chapters.json is the only generated file and the only link
C4_Witness ==
    /\ Len(generatedFiles) = 1
    /\ generatedFiles[1].name = ChaptersJson
    /\ LinksOf(downloads) = generatedFiles
    /\ ~zipDisabled
    /\ \E r \in RunIds : runs[r].pc = "done" /\ ~runs[r].threw

\* the lines the page shows: those of outputElement and of downloadsElement
ShownLines ==
    UNION {{output[i].a[j] : j \in 1..Len(output[i].a)} : i \in 1..Len(output)}
      \cup UNION {{downloads[i].a[j] : j \in 1..Len(downloads[i].a)} :
                    i \in {n \in 1..Len(downloads) : downloads[n].k = "text"}}

\* C5: when a run has processed a result, of any status, the page shows the
\* result's message and every one of its warnings.
C5_MessageAndWarningsShown ==
    [][\A r \in RunIds : Finishes(r) =>
          /\ \A i \in 1..Len(ResultOf(r).message) : ResultOf(r).message[i] \in ShownLines'
          /\ \A i \in 1..Len(ResultOf(r).warnings) : ResultOf(r).warnings[i] \in ShownLines']_vars

\* C6: no two entries of generatedFiles have the same name, so that an archive
\* built from it has as many entries as generatedFiles has elements.
C6_UniqueNames ==
    /\ \A i, j \in 1..Len(generatedFiles) :
          generatedFiles[i].name = generatedFiles[j].name => i = j
    /\ Len(zipFile(generatedFiles, 1, <<>>)) = Len(generatedFiles)

\* C7: an archive whose files all come from submitted file f is downloaded under
\* the base name of f followed by '_chapters.zip'.
C7_ZipNamedAfterOriginal ==
    \A f \in FileIds :
        (/\ saved.entries # <<>>
         /\ \A i \in 1..Len(saved.entries) : saved.entries[i].data.src = f)
        => saved.download = replacePdfExt(Files[f].name) \o ChaptersZip

\* the chapters the loop reaches: all of them, or those before the first entry
\* on which chapter[0] throws
Reached(chapters) ==
    LET bad == {i \in 1..Len(chapters) : chapters[i].kind = "null"}
    IN  IF bad = {} THEN chapters
        ELSE SubSeq(chapters, 1, (CHOOSE i \in bad : \A j \in bad : i <= j) - 1)

\* the files of the chapters of res whose data converts, in the order of res.chapters
ChapterFiles(res) ==
    LET ok(c) == c.kind \in {"PyProxyBytes", "PyProxyList", "Uint8Array", "ArrayBuffer"}
        kept == SelectSeq(Reached(res.chapters), ok)
    IN  [i \in 1..Len(kept) |-> File(kept[i].name, kept[i].data, "application/pdf")]

\* the TOC files of res that are not empty, chapters.txt first
TocFiles(res) ==
    (IF res.toc_text.body # <<>> THEN <<TocTextFile(res)>> ELSE <<>>)
      \o (IF res.toc_json.body # <<>> THEN <<TocJsonFile(res)>> ELSE <<>>)

\* C8: a run that finishes with a 'success' result appends to generatedFiles its
\* TOC files and then its chapters in the order of results.chapters, leaving out
\* the chapters whose data does not convert and keeping the ones after them; the
\* links it shows are in the same order.
C8_ChapterOrder ==
    [][\A r \in RunIds : (Finishes(r) /\ ResultOf(r).status = "success") =>
          /\ generatedFiles' =
                generatedFiles \o TocFiles(ResultOf(r)) \o ChapterFiles(ResultOf(r))
          /\ ~runs'[r].threw =>
                LinksOf(downloads') = TocFiles(ResultOf(r)) \o ChapterFiles(ResultOf(r))]_vars

\* C8 witness: a result whose second chapter does not convert was processed: the
\* first and the third chapter are in generatedFiles, in this order, and the
\* page reports the second one between their links
C8_Witness ==
    /\ Len(generatedFiles) = 4
    /\ generatedFiles[3].name = ChapterNameA
    /\ generatedFiles[4].name = ChapterNameC
    /\ Len(downloads) = 6
    /\ downloads[3].k = "link" /\ downloads[3].name = ChapterNameA
    /\ downloads[4].k = "text" /\ downloads[4].a = ChapterNameB
    /\ downloads[5].k = "link" /\ downloads[5].name = ChapterNameC

\* C9, for the runs that did not overlap with another run: if the ZIP button is
\* enabled, generatedFiles is not empty and no handleFile run is in progress.
C9_ZipEnabledOnlyWithFiles ==
    (~zipDisabled /\ \A r \in Running : runs[r].alone) =>
        (Len(generatedFiles) > 0 /\ Running = {})

\* C10: a run during which no other run was in progress, and which finishes with
\* a result whose status is not 'success', ends with generatedFiles empty, no
\* download link, the ZIP button disabled and the result's message shown as the
\* reason of the failure.
C10_NonSuccessLeavesNothing ==
    [][\A r \in RunIds : (Finishes(r) /\ runs[r].alone /\ ResultOf(r).status # "success") =>
          /\ generatedFiles' = <<>>
          /\ LinksOf(downloads') = <<>>
          /\ zipDisabled'
          /\ downloads' = <<Para("(Processing failed)", ResultOf(r).message)>>
          /\ ~runs'[r].threw]_vars

\* C10 witness: the only run so far has finished with a 'partial' result that
\* carried a chapter
C10_Witness ==
    /\ nRuns = 1
    /\ runs[1].pc = "done"
    /\ output[1].k = "Python script finished"
    /\ output[1].a[1] = "partial"
    /\ downloads = <<Para("(Processing failed)", <<"Extracted 1 of 2 chapters">>)>>
    /\ generatedFiles = <<>>
    /\ zipDisabled

\* C11: while a ZIP generation is in progress the ZIP button stays disabled, so no
\* second one can start: no step taken while a ZIP is being generated with the
\* button disabled, by a ZIP listener or by a handleFile run that never
\* overlapped with another run, leaves a ZIP in generation with the button enabled.
C11_OneZipAtATime ==
    [][(Len(zips) = 1 /\ zipDisabled /\ \A r \in Running : runs[r].alone) =>
          (Len(zips') > 0 => (zipDisabled' /\ Len(zips') = 1))]_vars

\* run r takes its last step: from either await to the end of handleFile
Ends(r) == InProgress(r) /\ runs'[r].pc = "done"

\* C12: every handleFile run that got past both guards finishes, and its last step
\* leaves the loader hidden and the file input reset; if it went through the
\* catch block, it also leaves the ZIP button disabled and the processing-failed
\* message in place of the downloads, and the run still ends in handleFile.
C12_RunEndsCleanly ==
    /\ \A r \in RunIds : InProgress(r) ~> (runs[r].pc = "done")
    /\ [][\A r \in RunIds : Ends(r) =>
             /\ ~loaderShown'
             /\ pdfInput' = 0
             /\ runs'[r].threw =>
                   /\ zipDisabled'
                   /\ downloads' = <<Para("(Processing failed - See Console)", <<>>)>>]_vars

\* C12 witness: a run has ended in the catch block after the Python proxy was
\* made, and no other run is in progress
C12_Witness ==
    /\ \E r \in RunIds : runs[r].pc = "done" /\ runs[r].threw /\ runs[r].proxy = "live"
    /\ Running = {}
    /\ ~loaderShown
    /\ pdfInput = 0
    /\ zipDisabled
    /\ downloads = <<Para("(Processing failed - See Console)", <<>>)>>

\* C13: Python objects are cleaned up: no finished handleFile run has left the
\* proxy of the input bytes (pdfBytesPy) alive, whether it ended on the success
\* path, on the non-success path or in the catch block.
C13_ProxyDestroyed ==
    \A r \in RunIds : runs[r].pc = "done" => runs[r].proxy # "live"

\* C14: a rejected submission changes nothing about earlier results: when a
\* dropped or selected file has a type without 'pdf', or the environment is not
\* ready, the step starts no run (split_pdf_data is not called) and leaves
\* generatedFiles, the ZIP button, the loader, the download links and the ZIP
\* generations alone; a PDF rejected for readiness also keeps the file name shown.
C14_RejectedChangesNothing ==
    [][\A f \in FileIds :
         ( /\ handleDrop(f) \/ pdfInputChange(f)
           /\ \/ ~includes(Files[f].type, <<"p", "d", "f">>)
              \/ ~isPyodideReady
              \/ ~pyodide
              \/ pythonScript = "" ) =>
             /\ UNCHANGED <<generatedFiles, zipDisabled, loaderShown, downloads>>
             /\ UNCHANGED <<runs, nRuns, zips, nZips, saved>>
             /\ includes(Files[f].type, <<"p", "d", "f">>) => UNCHANGED fileName
             /\ Len(output') = 1]_vars

\* C14 witness: a file that is not a PDF has just been rejected while the files
\* and links of an earlier run are in place and the ZIP button is enabled
C14_Witness ==
    /\ output = <<Seg("Error: Selected file is not a PDF", Files[3].name)>>
    /\ fileName = <<>>
    /\ Len(generatedFiles) > 0
    /\ LinksOf(downloads) # <<>>
    /\ ~zipDisabled
    /\ ~loaderShown
    /\ Running = {}

\* a handleFile run or a ZIP generation is in progress
Busy == Running # {} \/ zips # <<>>

\* C15: the loader is visible exactly while a handleFile run or a ZIP generation
\* is in progress: no step from a state where that is so, with at most one ZIP in
\* generation and no run that overlapped with another, leads to a state where
\* the loader is hidden during work or visible without any.
C15_LoaderShownIffBusy ==
    [][((loaderShown <=> Busy) /\ Len(zips) <= 1 /\ \A r \in Running : runs[r].alone) =>
          (loaderShown' <=> Busy')]_vars

====
